---------------------------- MODULE Spec2Model ----------------------------
(***************************************************************************)
(* A model of the single-node ledger of src/main.go: the chain of blocks,  *)
(* the one pending transaction, the proof-of-work search, the hash-link    *)
(* validity rule and the longest-chain conflict resolution, together with  *)
(* the HTTP handlers that drive them.                                      *)
(*                                                                         *)
(* Strings that take part in hashing (PreviousHash, the JSON text of a     *)
(* block, a digest) are sequences of string tokens, so that any two of     *)
(* them can be compared.  SHA-256 is idealised as collision free: the      *)
(* digest of a text is the text under a tag.  The proof-of-work digest,    *)
(* of which only the first four hex characters matter, is a small mixing   *)
(* function of the bytes hashed, so that the search ends within a few      *)
(* candidates.                                                             *)
(***************************************************************************)
EXTENDS Integers, Sequences, FiniteSets, TLC

VARIABLES
    Chain,               \* blockchain.Chain
    CurrentTransaction,  \* blockchain.CurrentTransaction
    Nodes,               \* blockchain.Nodes
    now,                 \* the wall clock read by time.Now().Unix()
    pc,                  \* where each in-flight request stands
    loc,                 \* each in-flight request's local variables
    ret,                 \* what the last completed call was given and returned
    posted               \* the last accepted POST /transactions/new not yet
                         \* followed by a completed /mine, or <<>>; for the
                         \* ledger's methods called directly, the last two
                         \* NewTransaction calls since the last NewBlock

vars == <<Chain, CurrentTransaction, Nodes, now, pc, loc, ret, posted>>

---------------------------------------------------------------------------
(* Bounds *)

\* Mining stops being requested once the chain holds this many blocks.
MaxChain == 4
\* The clock stops at this second.
MaxTime == 1
\* The proof-of-work search is followed up to this candidate.
MaxNonce == 12
\* Reference proofs handed to the search on its own: -MaxRef..MaxRef.
MaxRef == 40
\* The largest length a peer reports.
MaxPeerLength == 4
\* The /mine and /nodes/resolve requests served, all of which may be in
\* flight at the same time.
NumRequests == 2
\* The longest chain handed to validChain on its own.
MaxTamperLen == 3
\* RegisterNode calls made in a row
MaxRegistrations == 4

---------------------------------------------------------------------------
(* Data model *)

\* Transaction{}: the zero value of the struct.
EmptyTransaction == [Sender |-> "", Recipient |-> "", Amount |-> 0]

Transaction(sender, recipient, amount) ==
    [Sender |-> sender, Recipient |-> recipient, Amount |-> amount]

Block(index, timestamp, transactions, proof, previousHash) ==
    [Index |-> index, Timestamp |-> timestamp, Transactions |-> transactions,
     Proof |-> proof, PreviousHash |-> previousHash]

FullChain(chain, length) == [Chain |-> chain, Length |-> length]

\* The identity main() draws at startup; it never changes afterwards.
nodeIdentifire == "node"

\* The arguments init() gives NewBlock for the genesis block.
GenesisPreviousHash == <<"1">>
GenesisProof == 100

---------------------------------------------------------------------------
(* Hashing *)

\* strconv.Itoa: the decimal digits, most significant first, after a minus
\* sign for a negative number.
\* The bytes are their ASCII codes: "0" is 48 and "-" is 45.
RECURSIVE Digits(_)
Digits(n) ==
    IF n < 10 THEN <<48 + n>> ELSE Append(Digits(n \div 10), 48 + (n % 10))

Itoa(n) == IF n < 0 THEN <<45>> \o Digits(-n) ELSE Digits(n)

\* json.Marshal(block): the fields in declaration order, the nested
\* transaction in its own declaration order.  The previous hash comes last
\* in the struct, so the text is the six scalar fields followed by it.
Marshal(block) ==
    <<ToString(block.Index), ToString(block.Timestamp),
      block.Transactions.Sender, block.Transactions.Recipient,
      ToString(block.Transactions.Amount), ToString(block.Proof)>>
    \o block.PreviousHash

\* hex.EncodeToString(sha256.Sum256(text)), collision free.
Sha256Hex(text) == <<"sha256">> \o text

HashDropsTimestamp(block) ==
    Sha256Hex(Marshal([block EXCEPT !.Timestamp = 0]))

Hash(block) == Sha256Hex(Marshal(block))

---------------------------------------------------------------------------
(* Proof of work *)

\* The digest of the guess, reduced to what validProof reads of it: the
\* first four characters of its hex encoding.  A mixing function of all
\* the bytes stands for SHA-256, each character being "0" with probability
\* one half instead of one sixteenth.
RECURSIVE Mix(_, _)
Mix(h, bytes) ==
    IF bytes = <<>> THEN h
    ELSE Mix((h * 17 + Head(bytes)) % 97, Tail(bytes))

Sha256Head(bytes) ==
    LET h == Mix(0, bytes)
    IN  <<h % 2, (h \div 2) % 2, (h \div 4) % 2, (h \div 8) % 2>>

validProof(lastProof, proof) ==
    LET guess == Itoa(lastProof) \o Itoa(proof)
        guessHash == Sha256Head(guess)
    IN  guessHash = <<0, 0, 0, 0>>

\* The loop of ProofOfWork from the candidate `proof` on.  The search is
\* followed up to MaxNonce; a result above MaxNonce stands for a search
\* that is still running.
RECURSIVE Search(_, _)
Search(lastProof, proof) ==
    IF proof > MaxNonce \/ validProof(lastProof, proof) THEN proof
    ELSE Search(lastProof, proof + 1)

ProofOfWorkFromOne(lastProof) == Search(lastProof, 1)

ProofOfWork(lastProof) == Search(lastProof, 0)

---------------------------------------------------------------------------
(* Ledger *)

LastBlock == Chain[Len(Chain)]

\* validChain's loop from position currentIndex on (positions count from 1
\* here, from 0 in the source), lastBlock being the block before it.
RECURSIVE validFrom(_, _)
validFrom(chain, currentIndex) ==
    IF currentIndex > Len(chain) THEN TRUE
    ELSE IF chain[currentIndex].PreviousHash # Hash(chain[currentIndex - 1])
         THEN FALSE
         ELSE validFrom(chain, currentIndex + 1)

validChainChecksProofs(chain) ==
    /\ validFrom(chain, 2)
    /\ \A i \in 2..Len(chain) : validProof(chain[i - 1].Proof, chain[i].Proof)

\* Defined for a chain with at least one block: chain[0] panics on an empty
\* one, which the callers model.
validChain(chain) == validFrom(chain, 2)

PreviousHashOfFirst(chain, PreviousHash) ==
    IF PreviousHash # <<>> THEN PreviousHash ELSE Hash(chain[1])

\* The previous hash NewBlock records: the one it is given, or the hash of
\* the chain's last block when it is given the empty string.
PreviousHashOf(chain, PreviousHash) ==
    IF PreviousHash # <<>> THEN PreviousHash ELSE Hash(chain[Len(chain)])

NewBlockValueIndexLen(chain, transaction, timestamp, proof, pg) ==
    Block(Len(chain), timestamp, transaction, proof, pg)

\* The block NewBlock builds from what it read.
NewBlockValue(chain, transaction, timestamp, proof, pg) ==
    Block(Len(chain) + 1, timestamp, transaction, proof, pg)

\* blockchain.init(): an empty BlockChain, then NewBlock("1", 100).
Genesis ==
    NewBlockValue(<<>>, EmptyTransaction, 0, GenesisProof,
                  PreviousHashOf(<<>>, GenesisPreviousHash))

\* The ledger value `blockchain` that the methods read and write.
Ledger == [Chain |-> Chain, CurrentTransaction |-> CurrentTransaction]

NewTransactionKeepsPending(L, sender, recipient, amount) ==
    IF L.CurrentTransaction # EmptyTransaction THEN L
    ELSE [L EXCEPT !.CurrentTransaction =
                Transaction(sender, recipient, amount)]

\* NewTransaction run without interruption: the ledger it leaves ...
NewTransaction(L, sender, recipient, amount) ==
    [L EXCEPT !.CurrentTransaction = Transaction(sender, recipient, amount)]

\* ... and the index it returns, LastBlock().Index + 1.
NewTransactionIndex(L) == L.Chain[Len(L.Chain)].Index + 1

NewBlockKeepsTransaction(L, timestamp, PreviousHash, proof) ==
    [L EXCEPT !.Chain = Append(L.Chain,
        NewBlockValue(L.Chain, L.CurrentTransaction, timestamp, proof,
                      PreviousHashOf(L.Chain, PreviousHash)))]

\* NewBlock run without interruption: the ledger it leaves.  The block it
\* returns is the last one of that ledger's chain.
NewBlock(L, timestamp, PreviousHash, proof) ==
    [Chain |-> Append(L.Chain,
        NewBlockValue(L.Chain, L.CurrentTransaction, timestamp, proof,
                      PreviousHashOf(L.Chain, PreviousHash))),
     CurrentTransaction |-> EmptyTransaction]

---------------------------------------------------------------------------
(* Conflict resolution *)

\* One turn of the loop over the neighbours.  st holds the locals maxLength
\* and newChain, and whether the call has panicked; reply is what the GET of
\* the peer's /chain gave: ok is FALSE for a transport error, a status
\* other than 200 or a body that does not decode, each of which panics.
\* A reply that reports more than maxLength is validated, and validChain
\* panics on an empty chain.
ScanPeerAcceptsTie(st, reply) ==
    IF st.panicked THEN st
    ELSE IF ~reply.ok THEN [st EXCEPT !.panicked = TRUE]
    ELSE IF reply.body.Length >= st.maxLength
         THEN IF Len(reply.body.Chain) = 0
              THEN [st EXCEPT !.panicked = TRUE]
              ELSE IF validChain(reply.body.Chain)
                   THEN [st EXCEPT !.maxLength = reply.body.Length,
                                   !.newChain = reply.body.Chain]
                   ELSE st
         ELSE st

ScanPeer(st, reply) ==
    IF st.panicked THEN st
    ELSE IF ~reply.ok THEN [st EXCEPT !.panicked = TRUE]
    ELSE IF reply.body.Length > st.maxLength
         THEN IF Len(reply.body.Chain) = 0
              THEN [st EXCEPT !.panicked = TRUE]
              ELSE IF validChain(reply.body.Chain)
                   THEN [st EXCEPT !.maxLength = reply.body.Length,
                                   !.newChain = reply.body.Chain]
                   ELSE st
         ELSE st

\* The locals of resolveConflicts before the loop.
ScanStart(chain) ==
    [maxLength |-> Len(chain), newChain |-> <<>>, panicked |-> FALSE]

\* The loop over the neighbours, replies[i] being the i-th neighbour's.
RECURSIVE ScanPeers(_, _)
ScanPeers(st, replies) ==
    IF replies = <<>> THEN st
    ELSE ScanPeers(ScanPeer(st, Head(replies)), Tail(replies))

resolveConflictsKeepsCandidate(chain, replies) ==
    LET st == ScanPeers(ScanStart(chain), replies)
    IN  [panicked |-> st.panicked,
         replaced |-> ~st.panicked /\ Len(st.newChain) # 0,
         Chain    |-> IF Len(st.newChain) # 0 THEN st.newChain ELSE chain]

\* resolveConflicts run without interruption on the local chain: whether it
\* panicked, what it returned and the chain it leaves.
resolveConflicts(chain, replies) ==
    LET st == ScanPeers(ScanStart(chain), replies)
    IN  [panicked |-> st.panicked,
         replaced |-> ~st.panicked /\ Len(st.newChain) # 0,
         Chain    |-> IF ~st.panicked /\ Len(st.newChain) # 0
                      THEN st.newChain ELSE chain]

---------------------------------------------------------------------------
(* Peer registry *)

\* The loop of RegisterNode that keeps the first occurrence of each address.
RECURSIVE Dedup(_, _)
Dedup(nodes, one) ==
    IF nodes = <<>> THEN one
    ELSE IF \E i \in 1..Len(one) : one[i] = Head(nodes)
         THEN Dedup(Tail(nodes), one)
         ELSE Dedup(Tail(nodes), Append(one, Head(nodes)))

RegisterNodeNoDedup(nodes, address) == Append(nodes, address)

RegisterNode(nodes, address) == Dedup(Append(nodes, address), <<>>)

\* The handler's loop over the addresses of the request.
RECURSIVE RegisterNodes(_, _)
RegisterNodes(nodes, addresses) ==
    IF addresses = <<>> THEN nodes
    ELSE RegisterNodes(RegisterNode(nodes, Head(addresses)), Tail(addresses))

---------------------------------------------------------------------------
(* Inputs *)

Requests == 1..NumRequests

\* Bodies of POST /transactions/new.
TransferInputs ==
    {Transaction("alice", "bob", 5), Transaction("bob", "alice", -1)}

\* Proofs handed to NewBlock when it is called directly.
DirectProofs == {0, 35}

\* Peer addresses.
Addresses == {"http://a", "http://b"}

\* Bodies of POST /nodes/register: up to two addresses, repeats included.
RegisterInputs ==
    {<<a>> : a \in Addresses} \cup {<<a, b>> : a \in Addresses, b \in Addresses}

\* A peer that runs this program, started at second 1, and what it holds
\* after each of its own /mine requests.
PeerGenesis ==
    Block(1, 1, EmptyTransaction, GenesisProof, GenesisPreviousHash)

PeerMined(chain) ==
    NewBlock(NewTransaction([Chain |-> chain,
                             CurrentTransaction |-> EmptyTransaction],
                            "0", "peer", 1),
             1, <<>>, ProofOfWork(chain[Len(chain)].Proof)).Chain

Peer2 == PeerMined(<<PeerGenesis>>)
Peer3 == PeerMined(Peer2)

\* Peer3 with the amount of its second block changed afterwards.
Broken3 == [Peer3 EXCEPT ![2].Transactions.Amount = 1000]

\* A chain made up by a peer: every link holds, but the second block has
\* index 7 and a proof that is not valid after the genesis proof.
Forged2 ==
    Block(7, 1, Transaction("0", "peer", 1000), 0, Hash(PeerGenesis))

Forged3 ==
    <<PeerGenesis, Forged2,
      Block(3, 1, Transaction("0", "peer", 1), 0, Hash(Forged2))>>

\* What a GET of a peer's /chain gives: a failure, or a body {chain,
\* length}.  The length is the chain's own when the peer answers as
\* FullChainGET does; a peer may also report more than it sends (with a
\* chain or with none) or less.
FetchFailed == [ok |-> FALSE, body |-> FullChain(<<>>, 0)]

PeerBodies ==
    {FullChain(c, Len(c)) : c \in {Peer2, Peer3, Broken3, Forged3}}
    \cup {FullChain(<<>>, MaxPeerLength), FullChain(Peer2, MaxPeerLength),
          FullChain(Peer3, 2)}

PeerReplies == {[ok |-> TRUE, body |-> b] : b \in PeerBodies} \cup {FetchFailed}

---------------------------------------------------------------------------
(* The node after main() has run blockchain.init() *)

NoLocals == [handler |-> "none"]

InitNode ==
    /\ Chain = <<Genesis>>
    /\ CurrentTransaction = EmptyTransaction
    /\ Nodes = <<>>
    /\ now = 0
    /\ pc = [r \in Requests |-> "idle"]
    /\ loc = [r \in Requests |-> NoLocals]
    /\ ret = [op |-> "init"]
    /\ posted = <<>>

\* A second passes.
Tick ==
    /\ now < MaxTime
    /\ now' = now + 1
    /\ UNCHANGED <<Chain, CurrentTransaction, Nodes, pc, loc, ret, posted>>

---------------------------------------------------------------------------
(* The ledger's methods called one at a time *)

LedgerNewTransaction ==
    \E t \in TransferInputs :
        LET L == NewTransaction(Ledger, t.Sender, t.Recipient, t.Amount)
        IN  /\ CurrentTransaction' = L.CurrentTransaction
            /\ Chain' = L.Chain
            /\ ret' = [op |-> "NewTransaction", given |-> t,
                       value |-> NewTransactionIndex(L),
                       before |-> Ledger, nodes |-> Nodes]
            /\ posted' =
                    LET call == [post |-> t, index |-> NewTransactionIndex(L)]
                    IN  IF posted = <<>> THEN <<call>>
                        ELSE <<posted[Len(posted)], call>>
            /\ UNCHANGED <<Nodes, now, pc, loc>>

LedgerNewBlock ==
    /\ Len(Chain) < MaxChain
    /\ \E proof \in DirectProofs :
        LET L == NewBlock(Ledger, now, <<>>, proof)
        IN  /\ CurrentTransaction' = L.CurrentTransaction
            /\ Chain' = L.Chain
            /\ ret' = [op |-> "NewBlock", given |-> proof,
                       value |-> L.Chain[Len(L.Chain)],
                       before |-> Ledger, nodes |-> Nodes,
                       posted |-> posted]
            /\ posted' = <<>>
            /\ UNCHANGED <<Nodes, now, pc, loc>>

\* The address given to blockchain.RegisterNode between the ledger's calls.
LedgerAddresses == {"http://a"}

\* blockchain.RegisterNode(address).
LedgerRegisterNode ==
    \E address \in LedgerAddresses :
        /\ Nodes' = RegisterNode(Nodes, address)
        /\ ret' = [op |-> "RegisterNode", given |-> address, nodes |-> Nodes]
        /\ UNCHANGED <<Chain, CurrentTransaction, now, pc, loc, posted>>

NextLedger ==
    LedgerNewTransaction \/ LedgerNewBlock \/ LedgerRegisterNode \/ Tick

SpecLedger == InitNode /\ [][NextLedger]_vars

---------------------------------------------------------------------------
(* The registry on its own: blockchain.RegisterNode called with one address *)
(* after another, ret.registered being the addresses given so far.          *)

RegistryAddresses == Addresses \cup {"http://c"}

Registered == IF ret.op = "RegisterNode" THEN ret.registered ELSE <<>>

RegistryRegisterNode ==
    /\ Len(Registered) < MaxRegistrations
    /\ \E address \in RegistryAddresses :
        /\ Nodes' = RegisterNode(Nodes, address)
        /\ ret' = [op |-> "RegisterNode", given |-> address, nodes |-> Nodes,
                   registered |-> Append(Registered, address)]
    /\ UNCHANGED <<Chain, CurrentTransaction, now, pc, loc, posted>>

NextRegistry == RegistryRegisterNode

SpecRegistry == InitNode /\ [][NextRegistry]_vars

---------------------------------------------------------------------------
(* validChain on its own: a chain that passes, then one field of one block *)
(* other than the last changed                                             *)

Fields == {"Index", "Timestamp", "Transactions", "Proof", "PreviousHash"}

StrayHashes == {GenesisPreviousHash, <<"x">>}

\* The blocks tried at a position, with one of `hashes` as previous hash.
BlocksAt(position, hashes) ==
    {Block(position, t, EmptyTransaction, pr, ph) :
        t \in 0..1, pr \in 0..1, ph \in hashes}

RECURSIVE ChainsOfLen(_)
ChainsOfLen(n) ==
    IF n = 1 THEN {<<b>> : b \in BlocksAt(1, StrayHashes)}
    ELSE UNION {{Append(c, b) :
                    b \in BlocksAt(n, {Hash(c[n - 1]), GenesisPreviousHash})} :
                c \in ChainsOfLen(n - 1)}

CandidateChains == UNION {ChainsOfLen(n) : n \in 2..MaxTamperLen}

\* The values a field is changed to.
FieldValues(field, chain) ==
    CASE field = "Index" -> 0..(Len(chain) + 1)
      [] field = "Timestamp" -> 0..2
      [] field = "Transactions" ->
            {EmptyTransaction} \cup TransferInputs
      [] field = "Proof" -> 0..2
      [] field = "PreviousHash" ->
            StrayHashes \cup {Hash(chain[i]) : i \in 1..Len(chain)}

InitTamper ==
    /\ Chain = <<Genesis>>
    /\ CurrentTransaction = EmptyTransaction
    /\ Nodes = <<>>
    /\ now = 0
    /\ pc = [r \in Requests |-> "idle"]
    /\ loc = [r \in Requests |-> NoLocals]
    /\ posted = <<>>
    /\ ret \in {[op |-> "chain", chain |-> c] :
                    c \in {d \in CandidateChains : validChain(d)}}

Tamper ==
    /\ ret.op = "chain"
    /\ \E i \in 1..(Len(ret.chain) - 1), f \in Fields :
        \E v \in FieldValues(f, ret.chain) :
            LET tampered == [ret.chain EXCEPT ![i][f] = v]
            IN  /\ v # ret.chain[i][f]
                /\ ret' = [op |-> "tampered", chain |-> tampered,
                           from |-> ret.chain, at |-> i, field |-> f,
                           valid |-> validChain(tampered)]
    /\ UNCHANGED <<Chain, CurrentTransaction, Nodes, now, pc, loc, posted>>

SpecTamper == InitTamper /\ [][Tamper]_vars

---------------------------------------------------------------------------
(* ProofOfWork on its own *)

InitPoW ==
    /\ Chain = <<Genesis>>
    /\ CurrentTransaction = EmptyTransaction
    /\ Nodes = <<>>
    /\ now = 0
    /\ pc = [r \in Requests |-> "idle"]
    /\ loc = [r \in Requests |-> NoLocals]
    /\ posted = <<>>
    /\ ret \in {[op |-> "lastProof", lastProof |-> r] : r \in (-MaxRef)..MaxRef}

\* The call returns once the search has found its proof.
Solve ==
    /\ ret.op = "lastProof"
    /\ ProofOfWork(ret.lastProof) <= MaxNonce
    /\ ret' = [op |-> "ProofOfWork", lastProof |-> ret.lastProof,
               value |-> ProofOfWork(ret.lastProof)]
    /\ UNCHANGED <<Chain, CurrentTransaction, Nodes, now, pc, loc, posted>>

SpecPoW == InitPoW /\ [][Solve]_vars

---------------------------------------------------------------------------
(* The HTTP handlers, one request at a time *)

\* The reward Mine makes the pending transaction.
Reward == Transaction("0", nodeIdentifire, 1)

\* POST /transactions/new: 400 when the body does not bind, else
\* NewTransaction and 201 with the index in the message.
SeqNewTransactionPost ==
    \/ /\ ret' = [op |-> "NewTransactionPost", status |-> 400]
       /\ UNCHANGED <<Chain, CurrentTransaction, Nodes, now, pc, loc, posted>>
    \/ \E post \in TransferInputs :
        LET L == NewTransaction(Ledger, post.Sender, post.Recipient, post.Amount)
            index == NewTransactionIndex(L)
        IN  /\ CurrentTransaction' = L.CurrentTransaction
            /\ Chain' = L.Chain
            /\ ret' = [op |-> "NewTransactionPost", status |-> 201,
                       post |-> post, index |-> index]
            /\ posted' = <<[post |-> post, index |-> index]>>
            /\ UNCHANGED <<Nodes, now, pc, loc>>

MineSearchesFromFirstBlock(L, timestamp) ==
    NewBlock(NewTransaction(L, "0", nodeIdentifire, 1), timestamp, <<>>,
             ProofOfWork(L.Chain[1].Proof))

\* Mine run without interruption: the ledger it leaves.
Mine(L, timestamp) ==
    LET lastBlock == L.Chain[Len(L.Chain)]
        lastProof == lastBlock.Proof
        proof == ProofOfWork(lastProof)
    IN  NewBlock(NewTransaction(L, "0", nodeIdentifire, 1), timestamp, <<>>,
                 proof)

\* GET /mine.  The response carries the fields of the block NewBlock
\* returned.  The handler returns once the search has found its proof.
SeqMine ==
    /\ Len(Chain) < MaxChain
    /\ ProofOfWork(LastBlock.Proof) <= MaxNonce
    /\ LET L == Mine(Ledger, now)
       IN  /\ CurrentTransaction' = L.CurrentTransaction
           /\ Chain' = L.Chain
           /\ ret' = [op |-> "Mine", status |-> 201,
                      block |-> L.Chain[Len(L.Chain)],
                      before |-> Ledger, posted |-> posted]
    /\ posted' = <<>>
    /\ UNCHANGED <<Nodes, now, pc, loc>>

\* GET /chain.
FullChainGET(chain) == FullChain(chain, Len(chain))

SeqFullChainGET ==
    /\ ret' = [op |-> "FullChainGET", status |-> 200,
               body |-> FullChainGET(Chain)]
    /\ UNCHANGED <<Chain, CurrentTransaction, Nodes, now, pc, loc, posted>>

\* POST /nodes/register with a body that binds.
SeqRegisterNode ==
    \E nodes \in RegisterInputs :
        /\ Nodes' = RegisterNodes(Nodes, nodes)
        /\ ret' = [op |-> "RegisterNode", status |-> 201, given |-> nodes,
                   total_node |-> RegisterNodes(Nodes, nodes),
                   before |-> Nodes]
        /\ UNCHANGED <<Chain, CurrentTransaction, now, pc, loc, posted>>

\* GET /nodes/resolve, the i-th neighbour answering replies[i].  A panic
\* ends the request and leaves the process running.
SeqConsensus ==
    \E replies \in [1..Len(Nodes) -> PeerReplies] :
        LET r == resolveConflicts(Chain, replies)
        IN  /\ Chain' = r.Chain
            /\ ret' = [op |-> "Consensus", panicked |-> r.panicked,
                       replaced |-> r.replaced, replies |-> replies,
                       neighbors |-> Nodes, before |-> Ledger]
            /\ UNCHANGED <<CurrentTransaction, Nodes, now, pc, loc, posted>>

NextSeq ==
    \/ SeqNewTransactionPost
    \/ SeqMine
    \/ SeqFullChainGET
    \/ SeqRegisterNode
    \/ SeqConsensus
    \/ Tick

SpecSeq == InitNode /\ [][NextSeq]_vars

---------------------------------------------------------------------------
(* The running node: requests served concurrently, one goroutine each, on  *)
(* the one unsynchronised `blockchain`.  A step is one read or one write   *)
(* of a shared field (or of two fields that no claim tells apart); what a  *)
(* request has read it keeps in loc.  An assignment of a slice or struct   *)
(* is taken to be written whole.  Request r is idle until it arrives, and  *)
(* done once its handler has returned or panicked.                         *)

\* Mine, lines 318-320: LastBlock() is read, then the search runs on the
\* request's own data.  The handler goes on once the search has ended.
MinePoW(r) ==
    /\ pc[r] = "idle"
    /\ Len(Chain) < MaxChain
    /\ ProofOfWork(LastBlock.Proof) <= MaxNonce
    /\ pc' = [pc EXCEPT ![r] = "mine_tx"]
    /\ loc' = [loc EXCEPT ![r] =
            [handler |-> "Mine", lastProof |-> LastBlock.Proof,
             proof |-> ProofOfWork(LastBlock.Proof)]]
    /\ UNCHANGED <<Chain, CurrentTransaction, Nodes, now, ret, posted>>

\* Mine, line 322: NewTransaction("0", nodeIdentifire, 1).
MineNewTransaction(r) ==
    /\ pc[r] = "mine_tx"
    /\ CurrentTransaction' =
            NewTransaction(Ledger, "0", nodeIdentifire, 1).CurrentTransaction
    /\ pc' = [pc EXCEPT ![r] = "nb_hash"]
    /\ UNCHANGED <<Chain, Nodes, now, loc, ret, posted>>

\* NewBlock("", proof), lines 81-88: the hash of the last block.
NewBlockHash(r) ==
    /\ pc[r] = "nb_hash"
    /\ loc' = [loc EXCEPT ![r] =
            [handler |-> "Mine", lastProof |-> loc[r].lastProof,
             proof |-> loc[r].proof, pg |-> PreviousHashOf(Chain, <<>>)]]
    /\ pc' = [pc EXCEPT ![r] = "nb_index"]
    /\ UNCHANGED <<Chain, CurrentTransaction, Nodes, now, ret, posted>>

\* Lines 91-92: the length of the chain and the time.
NewBlockIndex(r) ==
    /\ pc[r] = "nb_index"
    /\ loc' = [loc EXCEPT ![r] =
            [handler |-> "Mine", lastProof |-> loc[r].lastProof,
             proof |-> loc[r].proof, pg |-> loc[r].pg,
             chain |-> Chain, timestamp |-> now]]
    /\ pc' = [pc EXCEPT ![r] = "nb_transaction"]
    /\ UNCHANGED <<Chain, CurrentTransaction, Nodes, now, ret, posted>>

\* Lines 93-96: the pending transaction, and the block is built.
NewBlockTransaction(r) ==
    /\ pc[r] = "nb_transaction"
    /\ loc' = [loc EXCEPT ![r] =
            [handler |-> "Mine", lastProof |-> loc[r].lastProof,
             proof |-> loc[r].proof,
             block |-> NewBlockValue(loc[r].chain, CurrentTransaction,
                                     loc[r].timestamp, loc[r].proof,
                                     loc[r].pg)]]
    /\ pc' = [pc EXCEPT ![r] = "nb_clear"]
    /\ UNCHANGED <<Chain, CurrentTransaction, Nodes, now, ret, posted>>

\* Line 98.
NewBlockClear(r) ==
    /\ pc[r] = "nb_clear"
    /\ CurrentTransaction' = EmptyTransaction
    /\ pc' = [pc EXCEPT ![r] = "nb_append"]
    /\ UNCHANGED <<Chain, Nodes, now, loc, ret, posted>>

\* Line 99, the slice read by append.
NewBlockAppendRead(r) ==
    /\ pc[r] = "nb_append"
    /\ loc' = [loc EXCEPT ![r] =
            [handler |-> "Mine", lastProof |-> loc[r].lastProof,
             proof |-> loc[r].proof, block |-> loc[r].block,
             chain |-> Chain]]
    /\ pc' = [pc EXCEPT ![r] = "nb_store"]
    /\ UNCHANGED <<Chain, CurrentTransaction, Nodes, now, ret, posted>>

\* Line 99, the result of append stored; lines 100 and 325-338, the
\* response, read nothing shared, and the request has ended.
NewBlockAppendWrite(r) ==
    /\ pc[r] = "nb_store"
    /\ Chain' = Append(loc[r].chain, loc[r].block)
    /\ pc' = [pc EXCEPT ![r] = "done"]
    /\ loc' = [loc EXCEPT ![r] = NoLocals]
    /\ UNCHANGED <<CurrentTransaction, Nodes, now, ret, posted>>

\* POST /transactions/new with a body that binds, served in one step.
ConcNewTransactionPost ==
    /\ \E post \in TransferInputs :
        CurrentTransaction' =
            NewTransaction(Ledger, post.Sender, post.Recipient,
                           post.Amount).CurrentTransaction
    /\ UNCHANGED <<Chain, Nodes, now, pc, loc, ret, posted>>

\* POST /nodes/register with a body that binds, served in one step.
ConcRegisterNode ==
    /\ \E nodes \in RegisterInputs : Nodes' = RegisterNodes(Nodes, nodes)
    /\ UNCHANGED <<Chain, CurrentTransaction, now, pc, loc, ret, posted>>

\* resolveConflicts, lines 180-183.  loc[r].honest records whether every
\* neighbour asked so far sent a chain of the length it reported.
ResolveStart(r) ==
    /\ pc[r] = "idle"
    /\ pc' = [pc EXCEPT ![r] = "rc_fetch"]
    /\ loc' = [loc EXCEPT ![r] =
            [handler |-> "Consensus", neighbors |-> Nodes,
             st |-> ScanStart(Chain), i |-> 1, before |-> Chain,
             honest |-> TRUE]]
    /\ UNCHANGED <<Chain, CurrentTransaction, Nodes, now, ret, posted>>

\* Lines 185-207: one neighbour is asked and answers.  A panic ends the
\* request.
ResolveFetch(r) ==
    /\ pc[r] = "rc_fetch"
    /\ loc[r].i <= Len(loc[r].neighbors)
    /\ \E reply \in PeerReplies :
        LET st == ScanPeer(loc[r].st, reply)
        IN  IF st.panicked
            THEN /\ pc' = [pc EXCEPT ![r] = "done"]
                 /\ loc' = [loc EXCEPT ![r] = NoLocals]
            ELSE /\ pc' = pc
                 /\ loc' = [loc EXCEPT
                        ![r].st = st, ![r].i = loc[r].i + 1,
                        ![r].honest =
                            /\ loc[r].honest
                            /\ reply.body.Length = Len(reply.body.Chain)]
    /\ UNCHANGED <<Chain, CurrentTransaction, Nodes, now, ret, posted>>

ResolveSwapAlways(r) ==
    /\ pc[r] = "rc_fetch"
    /\ loc[r].i > Len(loc[r].neighbors)
    /\ Chain' = loc[r].st.newChain
    /\ pc' = [pc EXCEPT ![r] = "done"]
    /\ loc' = [loc EXCEPT ![r] = NoLocals]
    /\ UNCHANGED <<CurrentTransaction, Nodes, now, ret, posted>>

\* Lines 209-213.
ResolveSwap(r) ==
    /\ pc[r] = "rc_fetch"
    /\ loc[r].i > Len(loc[r].neighbors)
    /\ Chain' = IF Len(loc[r].st.newChain) # 0
                THEN loc[r].st.newChain ELSE Chain
    /\ pc' = [pc EXCEPT ![r] = "done"]
    /\ loc' = [loc EXCEPT ![r] = NoLocals]
    /\ UNCHANGED <<CurrentTransaction, Nodes, now, ret, posted>>

Next ==
    \/ \E r \in Requests :
        \/ MinePoW(r)
        \/ MineNewTransaction(r)
        \/ NewBlockHash(r)
        \/ NewBlockIndex(r)
        \/ NewBlockTransaction(r)
        \/ NewBlockClear(r)
        \/ NewBlockAppendRead(r)
        \/ NewBlockAppendWrite(r)
        \/ ResolveStart(r)
        \/ ResolveFetch(r)
        \/ ResolveSwap(r)
    \/ ConcNewTransactionPost
    \/ ConcRegisterNode
    \/ Tick

Spec == InitNode /\ [][Next]_vars

---------------------------------------------------------------------------
(* Properties of the handlers run one at a time (SpecSeq), of the ledger's *)
(* methods (SpecLedger), of validChain (SpecTamper) and of ProofOfWork     *)
(* (SpecPoW)                                                               *)

\* The replies of a completed Consensus that resolveConflicts could adopt
\* on their own: fetched, reporting more than the local chain held when the
\* call began, and carrying a chain that passes validChain.
Adoptable(reply, localLength) ==
    /\ reply.ok
    /\ reply.body.Length > localLength
    /\ Len(reply.body.Chain) > 0
    /\ validChain(reply.body.Chain)

AdoptableIn(r) ==
    {i \in 1..Len(r.replies) :
        Adoptable(r.replies[i], Len(r.before.Chain))}

\* C1: when resolveConflicts has returned true, the local chain holds
\* strictly more blocks than it held when the call began, whatever length
\* the peers reported.
C1_ReplacedChainIsLonger ==
    (ret.op = "Consensus" /\ ret.replaced)
        => Len(Chain) > Len(ret.before.Chain)

\* C2: in every state of the node, under any sequence of requests, every
\* block of the local chain has its index equal to its position, counted
\* from 1.
C2_IndexIsPosition ==
    \A i \in 1..Len(Chain) : Chain[i].Index = i

\* C3: every chain built by init and then NewTransaction and NewBlock
\* calls, NewBlock taking the previous hash from the last block, passes
\* validChain.
C3_AppendedChainIsValid == validChain(Chain)

C3_Witness ==
    /\ ret.op = "NewBlock"
    /\ Len(Chain) >= 3
    /\ \E i \in 1..Len(Chain) : Chain[i].Transactions # EmptyTransaction

\* C4: in every state of the running node, with requests served
\* concurrently, every block after the first has as previous hash the hash
\* of the block before it.
C4_HashLinked ==
    \A i \in 2..Len(Chain) : Chain[i].PreviousHash = Hash(Chain[i - 1])

\* C11: after two NewTransaction calls with no NewBlock between them, the
\* block that NewBlock appends carries the second transaction and nothing
\* is left pending; and the first cannot turn up in a block afterwards,
\* because no block ever changes and a block that is appended carries the
\* transaction pending at that moment.
C11_SecondTransferOnly ==
    [][/\ \A i \in 1..Len(Chain) :
            i <= Len(Chain') /\ Chain'[i] = Chain[i]
       /\ \A i \in (Len(Chain) + 1)..Len(Chain') :
            Chain'[i].Transactions = CurrentTransaction
       /\ (Len(posted) = 2 /\ Len(Chain') > Len(Chain)) =>
            /\ Chain'[Len(Chain')].Transactions = posted[2].post
            /\ CurrentTransaction' = EmptyTransaction]_vars

C11_Witness ==
    /\ ret.op = "NewBlock"
    /\ Len(ret.posted) = 2
    /\ ret.posted[1].post # ret.posted[2].post
    /\ ret.value.Transactions = ret.posted[2].post

\* C12: the ledger as init leaves it has exactly one block, with index 1,
\* previous hash "1", proof 100 and the empty transaction, and nothing is
\* pending.
C12_FreshLedger ==
    ret.op = "init" =>
        /\ Len(Chain) = 1
        /\ Chain[1].Index = 1
        /\ Chain[1].PreviousHash = <<"1">>
        /\ Chain[1].Proof = 100
        /\ Chain[1].Transactions = [Sender |-> "", Recipient |-> "", Amount |-> 0]
        /\ CurrentTransaction = [Sender |-> "", Recipient |-> "", Amount |-> 0]

C12_Witness == ret.op = "init" /\ Len(Chain) = 1 /\ now = 1

Range(seq) == {seq[i] : i \in 1..Len(seq)}

NoDuplicates(seq) ==
    \A i \in 1..Len(seq) : \A j \in 1..Len(seq) : seq[i] = seq[j] => i = j

\* The place of the first registration of an address.
FirstRegistration(address) ==
    CHOOSE i \in 1..Len(Registered) :
        /\ Registered[i] = address
        /\ \A j \in 1..(i - 1) : Registered[j] # address

\* C13: after any sequence of RegisterNode calls the node list has no
\* duplicates, its members are exactly the addresses registered so far,
\* and they stand in the order in which they were first registered.
C13_NodesAreFirstRegistrations ==
    /\ NoDuplicates(Nodes)
    /\ Range(Nodes) = Range(Registered)
    /\ \A i \in 1..Len(Nodes) : \A j \in 1..Len(Nodes) :
            i < j => FirstRegistration(Nodes[i]) < FirstRegistration(Nodes[j])

C13_Witness ==
    /\ Registered = <<"http://a", "http://a", "http://b">>
    /\ Nodes = <<"http://a", "http://b">>

\* C19: NewBlock leaves the chain it found as a prefix of a chain one block
\* longer, leaves nothing pending and leaves the node list alone;
\* NewTransaction leaves the chain and the node list alone.
C19_Frames ==
    /\ ret.op = "NewBlock" =>
            /\ Len(Chain) = Len(ret.before.Chain) + 1
            /\ SubSeq(Chain, 1, Len(ret.before.Chain)) = ret.before.Chain
            /\ CurrentTransaction = EmptyTransaction
            /\ Nodes = ret.nodes
    /\ ret.op = "NewTransaction" =>
            /\ Chain = ret.before.Chain
            /\ Nodes = ret.nodes
            /\ CurrentTransaction =
                    [Sender |-> ret.given.Sender,
                     Recipient |-> ret.given.Recipient,
                     Amount |-> ret.given.Amount]

C19_Witness ==
    /\ ret.op = "NewBlock"
    /\ ret.before.CurrentTransaction # EmptyTransaction
    /\ ret.nodes # <<>>
    /\ Len(Chain) = 3

\* C14: the block a /mine request has built from the pending transaction
\* carries the reward that the same request set as pending, whatever the
\* other requests did in between.
C14_MinedBlockCarriesReward ==
    \A r \in Requests :
        pc[r] \in {"nb_clear", "nb_append", "nb_store"} =>
            loc[r].block.Transactions =
                [Sender |-> "0", Recipient |-> nodeIdentifire, Amount |-> 1]

\* C15: when a /mine request appends its block, the block's proof is valid
\* after the proof of the block that then precedes it in the chain.
C15_AppendedProofIsValid ==
    [][\A r \in Requests :
        (pc[r] = "nb_store" /\ pc'[r] = "done" /\ Len(Chain') >= 2) =>
            validProof(Chain'[Len(Chain') - 1].Proof,
                       Chain'[Len(Chain')].Proof)]_vars

\* C16: when every neighbour asked has sent a chain of the length it
\* reported and resolve is about to install the chain it chose, that chain
\* is longer than the local chain is at that moment.
C16_SwappedChainIsLongerThenToo ==
    \A r \in Requests :
        ( /\ pc[r] = "rc_fetch"
          /\ loc[r].i > Len(loc[r].neighbors)
          /\ loc[r].honest
          /\ Len(loc[r].st.newChain) # 0 ) =>
            Len(loc[r].st.newChain) > Len(Chain)

\* C18: the local chain is never empty.
C18_ChainNonEmpty == Len(Chain) > 0

C18_Witness ==
    /\ \E r \in Requests : pc[r] = "done"
    /\ Chain[1].Timestamp = 1
    /\ \E r \in Requests : pc[r] = "nb_store" /\ Len(loc[r].chain) < Len(Chain)

\* C17: when resolveConflicts panics, as it does whenever a fetch fails,
\* the chain, the pending transaction and the node list are as they were
\* before the call, also when an earlier neighbour had sent a longer chain
\* that passes validChain.
C17_AbortLeavesStateAlone ==
    ret.op = "Consensus" =>
        /\ (\E i \in 1..Len(ret.replies) : ~ret.replies[i].ok) => ret.panicked
        /\ ret.panicked =>
            /\ ~ret.replaced
            /\ Chain = ret.before.Chain
            /\ CurrentTransaction = ret.before.CurrentTransaction
            /\ Nodes = ret.neighbors

C17_Witness ==
    /\ ret.op = "Consensus"
    /\ ret.panicked
    /\ Len(ret.replies) = 2
    /\ Adoptable(ret.replies[1], Len(ret.before.Chain))
    /\ \/ ~ret.replies[2].ok
       \/ Len(ret.replies[2].body.Chain) = 0

HashLinked(chain) ==
    \A i \in 2..Len(chain) : chain[i].PreviousHash = Hash(chain[i - 1])

HasInvalidProof(chain) ==
    \E i \in 2..Len(chain) : ~validProof(chain[i - 1].Proof, chain[i].Proof)

\* The replies of a completed Consensus that report more than the local
\* chain held and carry a chain whose every link holds.
LinkedAndLongerIn(r) ==
    {i \in 1..Len(r.replies) :
        /\ r.replies[i].ok
        /\ r.replies[i].body.Length > Len(r.before.Chain)
        /\ Len(r.replies[i].body.Chain) > 0
        /\ HashLinked(r.replies[i].body.Chain)}

\* C20: when resolveConflicts returns and the neighbours that reported more
\* than the local length with a hash-linked chain all sent a chain holding
\* a proof that is not valid after the preceding block's proof, one of
\* these chains is adopted all the same, and the local chain then holds a
\* block with an invalid proof.
C20_InvalidProofsAreAdopted ==
    ( /\ ret.op = "Consensus"
      /\ ~ret.panicked
      /\ LinkedAndLongerIn(ret) # {}
      /\ \A i \in LinkedAndLongerIn(ret) :
            HasInvalidProof(ret.replies[i].body.Chain) ) =>
        /\ ret.replaced
        /\ \E i \in LinkedAndLongerIn(ret) : Chain = ret.replies[i].body.Chain
        /\ HasInvalidProof(Chain)

C20_Witness ==
    /\ ret.op = "Consensus"
    /\ ret.replaced
    /\ ~HasInvalidProof(ret.before.Chain)
    /\ HasInvalidProof(Chain)
    /\ HashLinked(Chain)

\* C5: the block produced by the first /mine after an accepted
\* POST /transactions/new has the index that the POST returned and carries
\* the transaction that was posted.
C5_PostedTransferIsMined ==
    (ret.op = "Mine" /\ ret.posted # <<>>)
        => /\ ret.block.Index = ret.posted[1].index
           /\ ret.block.Transactions = ret.posted[1].post

C7_FirstLongestPeerWins ==
    (ret.op = "Consensus" /\ ret.replaced) =>
        LET Q == AdoptableIn(ret)
            longest == {i \in Q : \A j \in Q :
                ret.replies[j].body.Length <= ret.replies[i].body.Length}
            first == CHOOSE i \in longest : \A j \in longest : i <= j
        IN  /\ longest # {}
            /\ Chain = ret.replies[first].body.Chain

C7_Witness ==
    /\ ret.op = "Consensus"
    /\ ret.replaced
    /\ Len(ret.replies) = 2
    /\ AdoptableIn(ret) = {1, 2}
    /\ ret.replies[1].body.Length = ret.replies[2].body.Length
    /\ ret.replies[1].body.Chain # ret.replies[2].body.Chain

\* C8: when one field of a block other than the last is changed in a chain
\* of two blocks or more that passes validChain, validChain returns false.
C8_TamperDetected == ret.op = "tampered" => ~ret.valid

C8_Witness ==
    /\ ret.op = "tampered"
    /\ Len(ret.chain) = 3
    /\ ret.at = 2
    /\ ret.field = "Timestamp"

\* C9: for a reference proof that has a valid proof, ProofOfWork returns,
\* and what it returns is valid and no smaller number is.
C9_SolveIsSmallest ==
    /\ (ret.op = "lastProof"
            /\ \E q \in 0..MaxNonce : validProof(ret.lastProof, q))
        => ENABLED Solve
    /\ ret.op = "ProofOfWork" =>
        /\ validProof(ret.lastProof, ret.value)
        /\ \A q \in 0..(ret.value - 1) : ~validProof(ret.lastProof, q)

C9_Witness ==
    /\ ret.op = "ProofOfWork"
    /\ ret.value >= 5

\* C10: a /mine run on its own appends exactly one block: its index is the
\* length of the chain plus one, its previous hash is the hash of the block
\* that was last, its proof is the smallest one valid after that block's
\* proof, and its transaction is the reward; on the genesis block alone it
\* is block 2 linked to the genesis block.
C10_MineAppendsRewardBlock ==
    ret.op = "Mine" =>
        LET before == ret.before.Chain
            L == before[Len(before)]
            b == ret.block
        IN  /\ Chain = Append(before, b)
            /\ b.Index = Len(before) + 1
            /\ b.PreviousHash = Hash(L)
            /\ validProof(L.Proof, b.Proof)
            /\ \A q \in 0..(b.Proof - 1) : ~validProof(L.Proof, q)
            /\ b.Transactions = Transaction("0", nodeIdentifire, 1)
            /\ before = <<Genesis>> =>
                    b.Index = 2 /\ b.PreviousHash = Hash(Genesis)

C10_Witness ==
    /\ ret.op = "Mine"
    /\ Len(ret.before.Chain) >= 2
    /\ ret.before.CurrentTransaction # EmptyTransaction

=============================================================================
